---------------------------- MODULE Spec2Model ----------------------------
(***************************************************************************)
(* Model of the TFTP read client of tftp_client.py: main, send_rrq and     *)
(* receive_data, the UDP socket they use and the local file they open.     *)
(*                                                                         *)
(* Byte strings (datagrams, the file content) are kept run-length encoded: *)
(* a sequence of runs <<byte, count>> with count >= 1 and no two adjacent  *)
(* runs of the same byte.  The encoding is canonical, so two byte strings  *)
(* are equal exactly when their encodings are equal.                       *)
(***************************************************************************)
EXTENDS Integers, Sequences, FiniteSets, TLC

(***************************************************************************)
(* Byte strings                                                            *)
(***************************************************************************)

\* b"" and a string of n copies of byte b
Fill(b, n) == IF n = 0 THEN << >> ELSE << <<b, n>> >>

\* a + b on bytes
BCat(a, b) ==
    IF a = << >> THEN b
    ELSE IF b = << >> THEN a
    ELSE IF a[Len(a)][1] = b[1][1]
         THEN SubSeq(a, 1, Len(a) - 1)
                  \o << <<b[1][1], a[Len(a)][2] + b[1][2]>> >> \o Tail(b)
         ELSE a \o b

\* len(s)
RECURSIVE BLen(_)
BLen(s) == IF s = << >> THEN 0 ELSE s[1][2] + BLen(Tail(s))

\* s[:k]
RECURSIVE BTake(_, _)
BTake(s, k) ==
    IF k = 0 \/ s = << >> THEN << >>
    ELSE IF s[1][2] <= k THEN BCat(<< s[1] >>, BTake(Tail(s), k - s[1][2]))
    ELSE << <<s[1][1], k>> >>

\* s[k:]
RECURSIVE BDrop(_, _)
BDrop(s, k) ==
    IF k = 0 \/ s = << >> THEN s
    ELSE IF s[1][2] <= k THEN BDrop(Tail(s), k - s[1][2])
    ELSE << <<s[1][1], s[1][2] - k>> >> \o Tail(s)

\* s[i-1], the i-th byte of s (1 <= i <= len(s))
RECURSIVE BAt(_, _)
BAt(s, i) == IF i <= s[1][2] THEN s[1][1] ELSE BAt(Tail(s), i - s[1][2])

\* bytes([q[1], ..., q[n]])
RECURSIVE Bytes(_)
Bytes(q) == IF q = << >> THEN << >>
            ELSE BCat(Fill(q[1], 1), Bytes(Tail(q)))

\* the concatenation of a sequence of byte strings
RECURSIVE BJoin(_)
BJoin(q) == IF q = << >> THEN << >> ELSE BCat(q[1], BJoin(Tail(q)))

(***************************************************************************)
(* struct.pack / struct.unpack with the formats the client uses            *)
(***************************************************************************)

\* the range of a "!H" field: an unsigned 16-bit integer
U16 == 65536

\* struct.pack("!H", v)
PackH(v) == Bytes(<< v \div 256, v % 256 >>)

\* struct.pack("!HH", v, w)
PackHH(v, w) == BCat(PackH(v), PackH(w))

\* struct.unpack("!HH", x) raises struct.error unless len(x) = 4
UnpackFails(x) == BLen(x) # 4

\* struct.unpack("!HH", x), for len(x) = 4
UnpackHH(x) == << BAt(x, 1) * 256 + BAt(x, 2), BAt(x, 3) * 256 + BAt(x, 4) >>


(***************************************************************************)
(* Program constants                                                       *)
(***************************************************************************)

\* max_retries
max_retries == 3

\* the buffer size given to recvfrom
BufSize == 516

\* the payload length below which a segment is the last one
BlockSize == 512

\* TFTP opcodes: RRQ, DATA, ACK
OpRRQ == 1
OpDATA == 3
OpACK == 4

\* ack_packet = None; "if ack_packet" is false for None (and for b"")
None == << >>

\* server_address = ("127.0.0.1", args.p), with the default port
server_address == << "127.0.0.1", 6969 >>

\* bytes(filename, 'utf-8') for the default file name "data.txt"
FileNameBytes == Bytes(<< 100, 97, 116, 97, 46, 116, 120, 116 >>)

\* b'\x00octet\x00'
ModeSuffix == Bytes(<< 0, 111, 99, 116, 101, 116, 0 >>)

\* the read request of send_rrq
RrqPacket == BCat(BCat(PackH(OpRRQ), FileNameBytes), ModeSuffix)

(***************************************************************************)
(* Bounds and inputs                                                       *)
(***************************************************************************)

\* datagrams are delivered while at most this many blocks have been accepted
MaxBlocks == 2

\* the bytes the payloads and the old file content are made of
FillBytes == { 65, 66 }

\* payload lengths: empty, one short of a full block, a full block
PayloadLens == { 0, BlockSize - 1, BlockSize }

Payloads == { Fill(f, n) : f \in FillBytes, n \in PayloadLens }

\* block numbers carried by the datagrams the network delivers
BlockNums == 0 .. (MaxBlocks + 1)

\* a DATA packet as a server builds it
DataPacket(b, p) == BCat(PackHH(OpDATA, b % U16), p)

\* an ERROR packet (opcode 5, code 1, message "No")
ErrorPacket == BCat(PackHH(5, 1), Bytes(<< 78, 111, 0 >>))

\* datagrams shorter than the 4-byte header
Runts == { << >>, Bytes(<< 0, 3 >>), Bytes(<< 0, 3, 0 >>) }

\* a DATA packet of block 1 one byte longer than the receive buffer
Oversized == DataPacket(1, Fill(65, BlockSize + 1))

Datagrams ==
    { DataPacket(b, p) : b \in BlockNums, p \in Payloads }
        \cup { ErrorPacket, PackHH(OpACK, 1), Oversized } \cup Runts

\* where a datagram may come from: the addressed endpoint, the port the
\* server answers from, or anywhere else
ServerTid == << "127.0.0.1", 50000 >>
\* another host, which the request was not sent to
Stranger == << "192.0.2.7", 6969 >>
Addrs == { server_address, ServerTid, Stranger }

\* the local file system entry that filename names, before the run; for
\* an absent entry, writable says whether the process may create it (its
\* directory exists and may be written)
FsStates ==
    { [kind |-> "absent", readable |-> FALSE, writable |-> w] :
          w \in BOOLEAN }
      \cup { [kind |-> "dir", readable |-> TRUE, writable |-> TRUE] }
      \cup { [kind |-> "file", readable |-> r, writable |-> w] :
                 r \in BOOLEAN, w \in BOOLEAN }

\* the content of the local file before the run, when there is one
OldContent == Fill(66, 3)

(***************************************************************************)
(* State                                                                   *)
(***************************************************************************)

\* the peer of a run in which the datagrams are any datagrams: no server
\* is modelled
NoServer == [ file |-> << >>, srv |-> 0, done |-> FALSE, tries |-> 0,
              cursor |-> 0, out |-> << >>, lost |-> "none" ]

VARIABLES
    mode,        \* args.m
    fs,          \* the file system entry of filename when main starts
    disk,        \* the bytes of the local file filename
    buf,         \* the bytes file.write has left in the buffer of the file
                 \* object, not yet in the file
    pc,          \* "main", "receive_data", "loop", "done"
    outcome,     \* how the run ended, "none" while it has not
    request,     \* what send_rrq did: "none", "sent", "FileNotFound",
                 \* "PermissionDenied"
    sock_open,   \* client_socket is not closed
    bound,       \* client_socket has a local port (a datagram can reach it)
    file_open,   \* the file object of receive_data is open
    opened,      \* open(filename, 'wb') has succeeded in this run
    block_num,   \* receive_data's block_num
    retries,     \* receive_data's retries
    ack_packet,  \* receive_data's ack_packet
    sent,        \* log: the datagrams passed to sendto since the run is
                 \* observed, in order: <<data, address>>
    events,      \* log: what recvfrom did since the run is observed, in
                 \* order: <<"recv", data, address>> or <<"timeout">>
    cur,         \* <<data, addr>> of the iteration in progress, where the
                 \* iteration is followed statement by statement; None
                 \* between iterations
    net          \* the peer and the channel, where a run is one against a
                 \* modelled server; the client never reads or writes it

vars == << mode, fs, disk, buf, pc, outcome, request, sock_open, bound, file_open,
           opened, block_num, retries, ack_packet, sent, events, cur, net >>

Init ==
    /\ mode \in { "rx", "tx" }
    /\ fs \in FsStates
    /\ disk = IF fs.kind = "file" THEN OldContent ELSE << >>
    /\ buf = << >>
    /\ pc = "main"
    /\ outcome = "none"
    /\ request = "none"
    /\ sock_open = TRUE
    /\ bound = FALSE
    /\ file_open = FALSE
    /\ opened = FALSE
    /\ block_num = 1
    /\ retries = 0
    /\ ack_packet = None
    /\ sent = << >>
    /\ events = << >>
    /\ cur = None
    /\ net = NoServer

(***************************************************************************)
(* send_rrq                                                                *)
(***************************************************************************)

\* os.path.isfile(filename)
IsFile(f) == f.kind = "file"

\* os.access(filename, os.R_OK)
CanRead(f) == f.readable

\* mutant of RrqResult: the permission check is missing
RrqResult_NoAccessCheck(f) == IF f.kind # "file" THEN "FileNotFound" ELSE "sent"

\* what send_rrq does for the file system entry f: the early returns, or
\* the sendto
RrqResult(f) ==
    IF ~IsFile(f) THEN "FileNotFound"
    ELSE IF ~CanRead(f) THEN "PermissionDenied"
    ELSE "sent"

\* main with -m rx: send_rrq(client_socket, server_address, args.file);
\* main goes on to receive_data whatever send_rrq did
SendRrq ==
    /\ pc = "main"
    /\ mode = "rx"
    /\ request' = RrqResult(fs)
    /\ IF request' = "sent"
       THEN /\ sent' = Append(sent, << RrqPacket, server_address >>)
            /\ bound' = TRUE
       ELSE UNCHANGED << sent, bound >>
    /\ pc' = "receive_data"
    /\ UNCHANGED << net, cur, mode, fs, disk, buf, outcome, sock_open, file_open, opened,
                    block_num, retries, ack_packet, events >>

\* main with any other mode: the message, then the finally clause
Unsupported ==
    /\ pc = "main"
    /\ mode # "rx"
    /\ pc' = "done"
    /\ outcome' = "UnsupportedMode"
    /\ sock_open' = FALSE
    /\ UNCHANGED << net, cur, mode, fs, disk, buf, request, bound, file_open, opened,
                    block_num, retries, ack_packet, sent, events >>

(***************************************************************************)
(* receive_data                                                            *)
(***************************************************************************)

\* open(filename, 'wb') raises OSError: filename is a directory, a file
\* the process may not write, or an absent file it may not create
OpenFails(f) == f.kind = "dir" \/ ~f.writable

\* the content of a file opened with mode 'wb'
Truncated(content) == << >>

\* the locals of receive_data, then open(filename, 'wb'): the file is
\* created or truncated; an OSError leaves through main's finally clause
OpenFile ==
    /\ pc = "receive_data"
    /\ block_num' = 1
    /\ retries' = 0
    /\ ack_packet' = None
    /\ IF OpenFails(fs)
       THEN /\ pc' = "done"
            /\ outcome' = "OSError"
            /\ sock_open' = FALSE
            /\ UNCHANGED << disk, file_open, opened >>
       ELSE /\ pc' = "loop"
            /\ disk' = Truncated(disk)
            /\ file_open' = TRUE
            /\ opened' = TRUE
            /\ UNCHANGED << outcome, sock_open >>
    /\ UNCHANGED << net, cur, mode, fs, buf, request, bound, sent, events >>

\* data[4:]
Payload(data) == BDrop(data, 4)

\* mutant of IsData: the test written as opcode < 3
IsData_AtLeast(opcode) == opcode >= OpDATA

\* opcode != 3 is the unexpected opcode
IsData(opcode) == opcode = OpDATA

\* mutant of InOrder: only a block past the expected one is rejected
InOrder_Lenient(block, expected) == block <= expected

\* block != block_num is the out-of-order block
InOrder(block, expected) == block = expected

\* mutant of Written: the segment is acknowledged but not written
Written_Nothing(content, data) == content

\* mutant of Written: the whole datagram is written, header included
Written_WithHeader(content, data) == BCat(content, data)

\* file.write(data[4:])
Written(content, data) == BCat(content, Payload(data))

\* the buffer of the file object open(filename, 'wb') returns: the block
\* size of the file system
FileBufferSize == 4096

\* the file after the buffered bytes are written out (on close)
Flushed(content, buffered) == BCat(content, buffered)

\* file.write on the buffered file object: the bytes go to the buffer
\* when they fit; when they do not, the buffer is written out first
FileWrite(content, buffered, data) ==
    IF BLen(Written(buffered, data)) <= FileBufferSize
    THEN [ disk |-> content, buf |-> Written(buffered, data) ]
    ELSE [ disk |-> Flushed(content, buffered),
           buf |-> Written(<< >>, data) ]

\* mutant of MakeAck: the acknowledgment names the next expected block
MakeAck_Expected(block) == PackHH(OpACK, block + 1)

\* ack_packet = struct.pack("!HH", 4, block)
MakeAck(block) == PackHH(OpACK, block)

\* the address the acknowledgment of an accepted segment goes to: addr
AckTo(addr) == addr

\* the address the acknowledgment resent on a timeout goes to
ResendTo == server_address

\* block_num += 1
\* mutant of NextBlockNum: the expected number wraps at 16 bits
NextBlockNum_Wrap(n) == (n + 1) % U16

NextBlockNum(n) == n + 1

\* mutant of IsLast: only an empty payload ends the transfer
IsLast_EmptyOnly(data) == BLen(BDrop(data, 4)) = 0

\* mutant of IsLast: a full block ends the transfer too
IsLast_Inclusive(data) == BLen(BDrop(data, 4)) <= BlockSize

\* len(data[4:]) < 512
IsLast(data) == BLen(Payload(data)) < BlockSize

\* mutant of Exhausted: the loop gives up on the 3rd timeout
Exhausted_Early(r) == r >= max_retries

\* retries > max_retries
Exhausted(r) == r > max_retries

\* mutant of Leave: the file is opened without the with block and is not
\* closed on the way out
Leave_FileLeftOpen(o) ==
    /\ pc' = "done"
    /\ outcome' = o
    /\ file_open' = file_open
    /\ sock_open' = FALSE

\* leaving the loop: the with block closes the file, receive_data returns
\* (or the exception propagates) and main's finally clause closes the socket
Leave(o) ==
    /\ pc' = "done"
    /\ outcome' = o
    /\ file_open' = FALSE
    /\ sock_open' = FALSE

\* mutant of Reject: the retry counter is cleared before the datagram is
\* validated
Reject_ClearsRetries(o) ==
    /\ Leave(o)
    /\ disk' = Flushed(disk, buf)
    /\ buf' = << >>
    /\ retries' = 0
    /\ UNCHANGED << block_num, ack_packet, sent >>

\* a break (or an exception) before the datagram is accepted: the locals
\* are left as they are, nothing is written and nothing is sent; the with
\* block closes the file, which writes out what was buffered
Reject(o) ==
    /\ Leave(o)
    /\ disk' = Flushed(disk, buf)
    /\ buf' = << >>
    /\ UNCHANGED << block_num, retries, ack_packet, sent >>

\* mutant of ResetRetries: the counter is not reset on a successful receive
ResetRetries_Keep(r) == r

\* retries = 0
ResetRetries(r) == 0

\* one iteration of the loop in which recvfrom returns the datagram d,
\* sent from address a
Recv(d, a) ==
    /\ pc = "loop"
    /\ bound
    /\ LET data == BTake(d, BufSize)
           head == BTake(data, 4)
       IN  /\ events' = Append(events, << "recv", data, a >>)
           /\ IF UnpackFails(head)
              THEN Reject("struct.error")
              ELSE LET opcode == UnpackHH(head)[1]
                       block == UnpackHH(head)[2]
                   IN  IF ~IsData(opcode)
                       THEN Reject("UnexpectedOpcode")
                       ELSE IF ~InOrder(block, block_num)
                       THEN Reject("OutOfOrderBlock")
                       ELSE /\ LET w == FileWrite(disk, buf, data)
                               IN  IF IsLast(data)
                                   THEN /\ disk' = Flushed(w.disk, w.buf)
                                        /\ buf' = << >>
                                   ELSE /\ disk' = w.disk
                                        /\ buf' = w.buf
                            /\ ack_packet' = MakeAck(block)
                            /\ sent' = Append(sent,
                                              << ack_packet', AckTo(a) >>)
                            /\ block_num' = NextBlockNum(block_num)
                            /\ retries' = ResetRetries(retries)
                            /\ IF IsLast(data)
                               THEN Leave("Finished")
                               ELSE UNCHANGED << pc, outcome, file_open,
                                                 sock_open >>
    /\ UNCHANGED << net, cur, mode, fs, request, bound, opened >>

\* one iteration of the loop in which recvfrom raises socket.timeout
Timeout ==
    /\ pc = "loop"
    /\ events' = Append(events, << "timeout" >>)
    /\ retries' = retries + 1
    /\ IF Exhausted(retries')
       THEN /\ Leave("MaxRetriesExceeded")
            /\ disk' = Flushed(disk, buf)
            /\ buf' = << >>
            /\ UNCHANGED sent
       ELSE /\ sent' = IF ack_packet # None
                       THEN Append(sent, << ack_packet, ResendTo >>)
                       ELSE sent
            /\ UNCHANGED << disk, buf, pc, outcome, file_open, sock_open >>
    /\ UNCHANGED << net, cur, mode, fs, request, bound, opened, block_num,
                    ack_packet >>

\* the network delivers a datagram while the transfer is within the bound
Deliver ==
    /\ block_num <= MaxBlocks
    /\ \E d \in Datagrams, a \in Addrs : Recv(d, a)

Next == SendRrq \/ Unsupported \/ OpenFile \/ Deliver \/ Timeout

Spec == Init /\ [][Next]_vars

(***************************************************************************)
(* The accepting iteration, in two steps                                   *)
(*                                                                         *)
(* The same program with the iteration that accepts a segment followed     *)
(* through its statements: first recvfrom, the two checks and file.write   *)
(* (lines 61-73), then the acknowledgment and the rest (lines 76-83).      *)
(* Between the two the program is at pc = "accepted".                      *)
(***************************************************************************)

\* lines 61-73: recvfrom returns the datagram d sent from a; a rejected
\* datagram leaves the loop as in Recv; an accepted one is written
RecvWrite(d, a) ==
    /\ pc = "loop"
    /\ bound
    /\ LET data == BTake(d, BufSize)
           head == BTake(data, 4)
       IN  /\ events' = Append(events, << "recv", data, a >>)
           /\ IF UnpackFails(head)
              THEN Reject("struct.error") /\ UNCHANGED cur
              ELSE LET opcode == UnpackHH(head)[1]
                       block == UnpackHH(head)[2]
                   IN  IF ~IsData(opcode)
                       THEN Reject("UnexpectedOpcode") /\ UNCHANGED cur
                       ELSE IF ~InOrder(block, block_num)
                       THEN Reject("OutOfOrderBlock") /\ UNCHANGED cur
                       ELSE /\ LET w == FileWrite(disk, buf, data)
                               IN  disk' = w.disk /\ buf' = w.buf
                            /\ pc' = "accepted"
                            /\ cur' = << data, a >>
                            /\ UNCHANGED << outcome, file_open, sock_open,
                                            block_num, retries, ack_packet,
                                            sent >>
    /\ UNCHANGED << net, mode, fs, request, bound, opened >>

\* lines 76-83: the acknowledgment is packed and sent to addr, block_num
\* and retries are set, and a short payload leaves the loop
SendAck ==
    /\ pc = "accepted"
    /\ LET data == cur[1]
           addr == cur[2]
           block == UnpackHH(BTake(data, 4))[2]
       IN  /\ ack_packet' = MakeAck(block)
           /\ sent' = Append(sent, << ack_packet', AckTo(addr) >>)
           /\ block_num' = NextBlockNum(block_num)
           /\ retries' = ResetRetries(retries)
           /\ IF IsLast(data)
              THEN /\ Leave("Finished")
                   /\ disk' = Flushed(disk, buf)
                   /\ buf' = << >>
              ELSE /\ pc' = "loop"
                   /\ UNCHANGED << disk, buf, outcome, file_open,
                                   sock_open >>
    /\ cur' = None
    /\ UNCHANGED << net, mode, fs, request, bound, opened, events >>

\* the network delivers a datagram while the transfer is within the bound
DeliverWrite ==
    /\ block_num <= MaxBlocks
    /\ \E d \in Datagrams, a \in Addrs : RecvWrite(d, a)

NextSteps ==
    SendRrq \/ Unsupported \/ OpenFile \/ DeliverWrite \/ SendAck \/ Timeout

SpecSteps == Init /\ [][NextSteps]_vars

(***************************************************************************)
(* Long transfers.  The run is observed from the state the client is in    *)
(* after a server has delivered WrapStart full blocks of the byte 65, in   *)
(* order and without a timeout: the program state is the one those         *)
(* deliveries produce (StartShape states it for the short runs of Spec),   *)
(* and the two logs, which are no program state, record what is sent and   *)
(* received from there on.                                                 *)
(***************************************************************************)

\* the number of full blocks delivered before the long run is observed
WrapStart == 65533

FullBlock == Fill(65, BlockSize)

\* k full blocks of the byte 65
DiskAfter(k) == Fill(65, k * BlockSize)

\* how many of k full blocks written are still in the buffer of the file
\* object: the buffer is written out by the write that does not fit
BlocksBuffered(k) ==
    IF k = 0 THEN 0 ELSE ((k - 1) % (FileBufferSize \div BlockSize)) + 1

\* file.write of a full block on the file object f
WriteFullBlock(f, k) == FileWrite(f.disk, f.buf, DataPacket(k, FullBlock))

\* the file object after k full blocks written one by one, over two
\* fillings of the buffer
FileAfter[k \in 0 .. 2 * (FileBufferSize \div BlockSize) + 1] ==
    IF k = 0
    THEN [ disk |-> << >>, buf |-> << >> ]
    ELSE WriteFullBlock(FileAfter[k - 1], k)

\* lemma: BlocksBuffered says what FileWrite does
BufferShape ==
    \A k \in 0 .. 2 * (FileBufferSize \div BlockSize) + 1 :
        FileAfter[k] = [ disk |-> DiskAfter(k - BlocksBuffered(k)),
                         buf |-> DiskAfter(BlocksBuffered(k)) ]

InitWrap ==
    /\ mode = "rx"
    /\ fs = [kind |-> "file", readable |-> TRUE, writable |-> TRUE]
    /\ disk = DiskAfter(WrapStart - BlocksBuffered(WrapStart))
    /\ buf = DiskAfter(BlocksBuffered(WrapStart))
    /\ pc = "loop"
    /\ outcome = "none"
    /\ request = "sent"
    /\ sock_open = TRUE
    /\ bound = TRUE
    /\ file_open = TRUE
    /\ opened = TRUE
    /\ block_num = WrapStart + 1
    /\ retries = 0
    /\ ack_packet = MakeAck(WrapStart)
    /\ sent = << >>
    /\ events = << >>
    /\ cur = None
    /\ net = NoServer

\* what a server may send in a long transfer: the blocks up to two past the
\* wrap of the 16-bit block number, full or short, and an error
WrapDatagrams ==
    { DataPacket(b, Fill(65, n)) :
          b \in (WrapStart + 1) .. (U16 + 1), n \in { BlockSize - 1, BlockSize } }
        \cup { ErrorPacket }

DeliverWrap == \E d \in WrapDatagrams, a \in Addrs : Recv(d, a)

NextWrap == DeliverWrap \/ Timeout

SpecWrap == InitWrap /\ [][NextWrap]_vars

\* In Spec, k full blocks of the byte 65 delivered in order and without a
\* timeout leave the client in the state InitWrap starts from (k for
\* WrapStart).
StartShape ==
    \A k \in 1 .. MaxBlocks :
        events = [ i \in 1 .. k |->
                     << "recv", DataPacket(i, FullBlock), server_address >> ]
        => /\ pc = "loop" /\ outcome = "none" /\ request = "sent"
           /\ sock_open /\ bound /\ file_open /\ opened
           /\ fs = [kind |-> "file", readable |-> TRUE, writable |-> TRUE]
           /\ disk = DiskAfter(k - BlocksBuffered(k))
           /\ buf = DiskAfter(BlocksBuffered(k))
           /\ block_num = k + 1
           /\ retries = 0
           /\ ack_packet = MakeAck(k)

(***************************************************************************)
(* Reading the logs                                                        *)
(***************************************************************************)

IsRecvEvent(e) == e[1] = "recv"
IsTimeoutEvent(e) == e[1] = "timeout"

\* the bytes written through the file object: those in the file followed
\* by those still buffered, which is what the file holds once it is closed
FileContent == BCat(disk, buf)

\* the datagrams received, in order
Received == SelectSeq(events, IsRecvEvent)

\* a logged datagram has a 4-byte header, and its opcode and block number
HasHeader(data) == BLen(data) >= 4
OpcodeOf(data) == BAt(data, 1) * 256 + BAt(data, 2)
BlockOf(data) == BAt(data, 3) * 256 + BAt(data, 4)

\* the acknowledgments sent, in order, and their block numbers
IsAckSent(m) == BLen(m[1]) = 4 /\ OpcodeOf(m[1]) = OpACK
AcksSent == SelectSeq(sent, IsAckSent)
AckBlocks == [ i \in 1 .. Len(AcksSent) |-> BlockOf(AcksSent[i][1]) ]

\* the read requests sent
IsRrqSent(m) == m[1] = RrqPacket
RrqsSent == SelectSeq(sent, IsRrqSent)

\* the last event, when there is one
LastEvent == events[Len(events)]

\* this step is an iteration of the loop in which a datagram was received
RecvStep == pc = "loop" /\ Len(events') = Len(events) + 1
                /\ IsRecvEvent(events'[Len(events')])
StepData == events'[Len(events')][2]

\* the run so far is the one against a well-behaved server without loss,
\* observed from block base + 1 on: the request was sent, and the events
\* are the segments base + 1, base + 2, ... of payloads of the model, each
\* but possibly the last one full
WellBehavedRun(base) ==
    /\ request = "sent"
    /\ events # << >>
    /\ \A i \in 1 .. Len(events) :
          /\ IsRecvEvent(events[i])
          /\ \E p \in Payloads :
                /\ events[i][2] = DataPacket(base + i, p)
                /\ i < Len(events) => BLen(p) = BlockSize

\* the server's file as far as it has been delivered, after base full
\* blocks of the byte 65
Delivered(base) ==
    BCat(DiskAfter(base),
         BJoin([ i \in 1 .. Len(events) |-> BDrop(events[i][2], 4) ]))

\* the statement of C1 for a run observed from block base + 1 on
TransferCorrect(base) ==
    WellBehavedRun(base) =>
        /\ AckBlocks = [ i \in 1 .. Len(events) |-> (base + i) % U16 ]
        /\ FileContent = Delivered(base)
        /\ IF BLen(BDrop(LastEvent[2], 4)) < BlockSize
           THEN pc = "done" /\ outcome = "Finished"
           ELSE pc = "loop"

(***************************************************************************)
(* C1                                                                      *)
(***************************************************************************)

\* C1 (as claimed, for a long transfer): against a well-behaved server
\* without loss, also one whose file has 65535 full blocks or more so that
\* its block numbers wrap, the client acknowledges every block in order,
\* ends in the success outcome once the short block is delivered, and the
\* file holds the server's content.
C1_LongTransferCorrect == TransferCorrect(WrapStart)

\* C1, short transfers (N + 1 <= MaxBlocks): against a well-behaved server
\* without loss the client acknowledges blocks 1 .. N+1 in order, ends in
\* the success outcome on the short block, and the file holds the content.
C1_ShortTransferCorrect == TransferCorrect(0)

\* a transfer of a full block and a short one has finished
C1_ShortTransferDone ==
    /\ WellBehavedRun(0)
    /\ Len(events) = 2
    /\ pc = "done"
    /\ outcome = "Finished"

(***************************************************************************)
(* C2                                                                      *)
(***************************************************************************)

\* C2: whenever the loop receives a DATA segment whose block number differs
\* from the expected block_num (a gap or a duplicate), the run ends with
\* OutOfOrderBlock in that step with nothing written and nothing sent, and
\* once the run has ended nothing more is written or sent.
C2_OutOfOrderFatal ==
    [][ /\ ( /\ RecvStep
             /\ HasHeader(StepData)
             /\ OpcodeOf(StepData) = OpDATA
             /\ BlockOf(StepData) # block_num )
           => ( /\ pc' = "done"
                /\ outcome' = "OutOfOrderBlock"
                /\ FileContent' = FileContent
                /\ sent' = sent )
        /\ pc = "done" => (FileContent' = FileContent /\ sent' = sent)
      ]_vars

\* a duplicate of the accepted block 1, carrying a payload, has ended the run
C2_DuplicateRejected ==
    /\ outcome = "OutOfOrderBlock"
    /\ block_num = 2
    /\ LastEvent[2] = DataPacket(1, Fill(65, BlockSize))
    /\ FileContent = Fill(66, BlockSize)

(***************************************************************************)
(* C3                                                                      *)
(***************************************************************************)

\* C3: whenever the loop receives a datagram whose header carries an opcode
\* other than 3, the run ends with UnexpectedOpcode in that step, without
\* a retry being counted, nothing written and nothing sent.
C3_UnexpectedOpcodeFatal ==
    [][ ( /\ RecvStep
          /\ HasHeader(StepData)
          /\ OpcodeOf(StepData) # OpDATA )
        => ( /\ pc' = "done"
             /\ outcome' = "UnexpectedOpcode"
             /\ retries' = retries
             /\ block_num' = block_num
             /\ FileContent' = FileContent
             /\ sent' = sent )
      ]_vars

\* an ERROR packet has ended a transfer after one accepted block
C3_ErrorPacketRejected ==
    /\ outcome = "UnexpectedOpcode"
    /\ block_num = 2
    /\ LastEvent[2] = ErrorPacket
    /\ FileContent = Fill(65, BlockSize)

(***************************************************************************)
(* C4                                                                      *)
(***************************************************************************)

\* the request was sent and nothing but timeouts has happened since
NeverResponds ==
    /\ request = "sent"
    /\ opened
    /\ \A i \in 1 .. Len(events) : IsTimeoutEvent(events[i])

\* C4: if the server never responds, the loop goes on after each of the
\* first 3 timeouts and ends with MaxRetriesExceeded on the 4th; the read
\* request is sent exactly once and at most 3 further datagrams are sent.
C4_SilentServer ==
    NeverResponds =>
        /\ pc = "loop" => Len(events) <= max_retries
        /\ pc = "done" => /\ Len(events) = max_retries + 1
                          /\ outcome = "MaxRetriesExceeded"
        /\ Len(RrqsSent) = 1
        /\ sent[1] = << RrqPacket, server_address >>
        /\ Len(sent) - 1 <= max_retries

\* the run against a silent server has ended
C4_SilentServerDone ==
    /\ NeverResponds
    /\ pc = "done"
    /\ outcome = "MaxRetriesExceeded"
    /\ Len(events) = 4

(***************************************************************************)
(* C5                                                                      *)
(***************************************************************************)

\* the events of a transfer of the segments q from address a
Segments(q, a) == [ i \in 1 .. Len(q) |-> << "recv", DataPacket(i, q[i]), a >> ]

\* C5: a file of 511 bytes is transferred in one segment and one
\* acknowledgment; a file of 512 bytes is not finished by its full segment
\* and is finished by a second, empty one, with two acknowledgments; the
\* file on disk equals the file sent.
C5_SizeBoundary ==
    \A f \in FillBytes, a \in Addrs :
        request = "sent" =>
            /\ events = Segments(<< Fill(f, BlockSize - 1) >>, a)
                 => /\ pc = "done" /\ outcome = "Finished"
                    /\ AckBlocks = << 1 >>
                    /\ Len(sent) = 2
                    /\ FileContent = Fill(f, BlockSize - 1)
            /\ events = Segments(<< Fill(f, BlockSize) >>, a)
                 => /\ pc = "loop" /\ outcome = "none"
                    /\ AckBlocks = << 1 >>
                    /\ FileContent = Fill(f, BlockSize)
            /\ events = Segments(<< Fill(f, BlockSize), << >> >>, a)
                 => /\ pc = "done" /\ outcome = "Finished"
                    /\ AckBlocks = << 1, 2 >>
                    /\ Len(sent) = 3
                    /\ FileContent = Fill(f, BlockSize)

\* a file of exactly 512 bytes has been transferred
C5_FullBlockFileDone ==
    /\ request = "sent"
    /\ events = Segments(<< Fill(65, BlockSize), << >> >>, server_address)
    /\ pc = "done"
    /\ FileContent = Fill(65, BlockSize)

(***************************************************************************)
(* C6, C7                                                                  *)
(***************************************************************************)

\* filename names no regular file, or one the process may not read
PreconditionFails == fs.kind # "file" \/ ~fs.readable

\* C6: when filename names no existing file or one that is not readable,
\* from send_rrq's return to the end of the run the request is recorded as
\* failed and no datagram at all has been passed to sendto.
C6_NoDatagramOnFailedRequest ==
    (mode = "rx" /\ pc # "main" /\ PreconditionFails) =>
        /\ request \in { "FileNotFound", "PermissionDenied" }
        /\ sent = << >>

\* the whole run after a failed permission check is over, the receive loop
\* having run to its last timeout
C6_FailedRequestRunOver ==
    /\ fs.kind = "file" /\ ~fs.readable
    /\ request = "PermissionDenied"
    /\ pc = "done"
    /\ outcome = "MaxRetriesExceeded"

\* C7 (as claimed): when send_rrq fails a local precondition, no receive is
\* attempted, the receive loop is never entered and the output file is
\* neither opened nor truncated.
C7_NoTransferAfterFailedRequest ==
    (mode = "rx" /\ PreconditionFails) =>
        /\ events = << >>
        /\ pc # "loop"
        /\ ~opened
        /\ disk = (IF fs.kind = "file" THEN OldContent ELSE << >>)

(***************************************************************************)
(* C8                                                                      *)
(***************************************************************************)

\* C8 (as claimed): the expected block number is a 16-bit number, 0 after
\* block 65535 has been accepted, and a well-behaved server whose block
\* numbers wrap is never answered with OutOfOrderBlock.
C8_BlockNumberWraps ==
    /\ block_num < U16
    /\ ack_packet = MakeAck(U16 - 1) => block_num = 0
    /\ WellBehavedRun(WrapStart) => outcome # "OutOfOrderBlock"

(***************************************************************************)
(* C9                                                                      *)
(***************************************************************************)

\* C9 (as claimed): every acknowledgment sent, the first one and every one
\* resent on a timeout, is addressed to the address the accepted segment of
\* that block number came from.  (The accepted segments are the first
\* block_num - 1 datagrams received.)
C9_AckToSource ==
    \A j \in 1 .. Len(AcksSent) :
        /\ BlockOf(AcksSent[j][1]) \in 1 .. Len(Received)
        /\ AcksSent[j][2] = Received[BlockOf(AcksSent[j][1])][3]

(***************************************************************************)
(* C10                                                                     *)
(***************************************************************************)

\* C10: from the moment the output file is opened, in every state, the
\* first block_num - 1 datagrams received are the DATA segments 1, 2, ...
\* in order, and the content written to the file is exactly the
\* concatenation of their payloads; nothing of a rejected datagram and
\* nothing of the old content of the file is in it; once the file is
\* closed all of it is in the file.
C10_FileIsAcceptedPayloads ==
    opened =>
        /\ block_num - 1 <= Len(Received)
        /\ Len(Received) <= block_num
        /\ \A i \in 1 .. (block_num - 1) :
              /\ OpcodeOf(Received[i][2]) = OpDATA
              /\ BlockOf(Received[i][2]) = i
        /\ FileContent = BJoin([ i \in 1 .. (block_num - 1) |->
                                   BDrop(Received[i][2], 4) ])
        /\ ~file_open => buf = << >>

\* a transfer over a file that had content has failed on a rejected segment
\* with a payload, after an accepted block
C10_FailedAfterBlock ==
    /\ opened
    /\ fs.kind = "file"
    /\ outcome = "OutOfOrderBlock"
    /\ block_num = 2
    /\ BLen(BDrop(LastEvent[2], 4)) > 0
    /\ disk = Fill(65, BlockSize)

(***************************************************************************)
(* C11                                                                     *)
(***************************************************************************)

\* C11: a step that receives a rejected datagram (its header carries an
\* opcode other than 3, or a block number other than block_num) leaves
\* block_num, retries, ack_packet and the file content as they were and
\* sends nothing.
C11_RejectChangesNothing ==
    [][ ( /\ RecvStep
          /\ HasHeader(StepData)
          /\ (OpcodeOf(StepData) # OpDATA \/ BlockOf(StepData) # block_num) )
        => ( /\ block_num' = block_num
             /\ retries' = retries
             /\ ack_packet' = ack_packet
             /\ FileContent' = FileContent
             /\ sent' = sent )
      ]_vars

\* a datagram has been rejected after an accepted block and two timeouts,
\* so that every piece of the transfer state had a value to lose
C11_RejectedMidTransfer ==
    /\ pc = "done"
    /\ outcome \in { "UnexpectedOpcode", "OutOfOrderBlock" }
    /\ block_num = 2
    /\ retries = 2
    /\ ack_packet = PackHH(OpACK, 1)
    /\ FileContent = Fill(65, BlockSize)

(***************************************************************************)
(* C13                                                                     *)
(***************************************************************************)

\* C13: in every state in which the run has ended, however it ended, the
\* output file is closed and the socket is closed; the file is open only
\* inside the loop.
C13_ResourcesReleased ==
    /\ pc = "done" => (~file_open /\ ~sock_open)
    /\ file_open => pc = "loop"

\* the run has ended by an exception raised inside the receive loop, after
\* the file was opened
C13_EndedByException ==
    /\ pc = "done"
    /\ outcome = "struct.error"
    /\ opened

(***************************************************************************)
(* C14                                                                     *)
(***************************************************************************)

\* the number of timeouts at the end of the event sequence q
RECURSIVE TrailingTimeouts(_)
TrailingTimeouts(q) ==
    IF q = << >> \/ ~IsTimeoutEvent(q[Len(q)]) THEN 0
    ELSE 1 + TrailingTimeouts(SubSeq(q, 1, Len(q) - 1))

\* the number of timeouts in all
TotalTimeouts == Len(SelectSeq(events, IsTimeoutEvent))

\* the position in events of the last accepted segment (0 when there is
\* none): the accepted segments are the first block_num - 1 datagrams
\* received
RECURSIVE PositionOfRecv(_, _)
PositionOfRecv(q, n) ==
    IF n = 0 \/ q = << >> THEN 0
    ELSE IF IsRecvEvent(q[1])
         THEN (IF n = 1 THEN 1 ELSE 1 + PositionOfRecv(Tail(q), n - 1))
         ELSE 1 + PositionOfRecv(Tail(q), n)
LastAccept == PositionOfRecv(events, block_num - 1)

\* the timeouts since the last accepted segment
TimeoutsSinceAccept ==
    Len(SelectSeq(SubSeq(events, LastAccept + 1, Len(events)),
                  IsTimeoutEvent))

\* C14: retries is the number of timeouts since the last accepted segment
\* (0 right after one); while the loop awaits a segment it is within 0..3;
\* the run ends with MaxRetriesExceeded exactly when 4 timeouts have
\* followed one another, and never otherwise, however many timeouts the
\* transfer has seen in all.
C14_RetriesCountConsecutiveTimeouts ==
    /\ retries = TimeoutsSinceAccept
    /\ pc = "loop" => retries \in 0 .. max_retries
    /\ outcome = "MaxRetriesExceeded"
         <=> (pc = "done" /\ TrailingTimeouts(events) = max_retries + 1)
    /\ TrailingTimeouts(events) <= max_retries + 1

\* a transfer has finished although it saw 6 timeouts, 3 before each of its
\* two segments
C14_FinishedAfterSixTimeouts ==
    /\ outcome = "Finished"
    /\ block_num = 3
    /\ TotalTimeouts = 6

(***************************************************************************)
(* C15                                                                     *)
(***************************************************************************)

\* the remembered acknowledgment is absent exactly when block 1 is
\* expected, and otherwise acknowledges block block_num - 1
LastAckRemembered ==
    /\ ack_packet = None <=> block_num = 1
    /\ block_num > 1 => ack_packet = PackHH(OpACK, block_num - 1)

\* this step is an iteration of the loop in which recvfrom timed out
TimeoutStep == pc = "loop" /\ Len(events') = Len(events) + 1
                   /\ IsTimeoutEvent(events'[Len(events')])

\* C15: LastAckRemembered holds in every state; a timeout after which the
\* loop goes on sends exactly one datagram, the bytes of the last
\* acknowledgment sent, when there is one, and nothing when there is none,
\* and changes neither block_num nor ack_packet nor the file.
C15_TimeoutResendsLastAck ==
    /\ LastAckRemembered
    /\ [][ /\ LastAckRemembered'
           /\ (TimeoutStep /\ pc' = "loop")
                => /\ block_num' = block_num
                   /\ ack_packet' = ack_packet
                   /\ FileContent' = FileContent
                   /\ IF AcksSent = << >>
                      THEN sent' = sent
                      ELSE /\ Len(sent') = Len(sent) + 1
                           /\ SubSeq(sent', 1, Len(sent)) = sent
                           /\ sent'[Len(sent')][1]
                                  = AcksSent[Len(AcksSent)][1]
         ]_vars

\* the acknowledgment of block 1 has been sent and resent on two timeouts
C15_AckResentTwice ==
    /\ pc = "loop"
    /\ block_num = 2
    /\ retries = 2
    /\ Len(AcksSent) = 3
    /\ AckBlocks = << 1, 1, 1 >>

(***************************************************************************)
(* C16                                                                     *)
(***************************************************************************)

\* the accepted segments: the first block_num - 1 datagrams received
Accepted == SubSeq(Received, 1, block_num - 1)

\* one of the accepted segments has a payload shorter than a full block
AcceptedShort ==
    \E i \in 1 .. Len(Accepted) : BLen(BDrop(Accepted[i][2], 4)) < BlockSize

\* C16: the outcome is the success outcome exactly when a segment with a
\* payload shorter than 512 bytes has been accepted; that segment is then
\* the last event, its payload is the end of the file, its acknowledgment
\* is the last datagram sent, to the address it came from; and once the run
\* has ended, with whatever outcome, nothing is sent and nothing written.
C16_FinishedIffShortSegment ==
    /\ [](outcome = "Finished" <=> AcceptedShort)
    /\ [](outcome = "Finished" =>
            /\ pc = "done"
            /\ LastEvent = Accepted[Len(Accepted)]
            /\ BLen(BDrop(LastEvent[2], 4)) < BlockSize
            /\ FileContent = BJoin([ i \in 1 .. Len(Accepted) |->
                                BDrop(Accepted[i][2], 4) ])
            /\ sent[Len(sent)]
                 = << PackHH(OpACK, BlockOf(LastEvent[2])), LastEvent[3] >>)
    /\ [][pc = "done" => /\ pc' = "done"
                         /\ sent' = sent
                         /\ disk' = disk /\ buf' = buf]_vars

\* a transfer has finished on a short second segment
C16_FinishedOnShortSegment ==
    /\ outcome = "Finished"
    /\ block_num = 3
    /\ LastEvent[2] = DataPacket(2, Fill(66, BlockSize - 1))
    /\ FileContent = BCat(Fill(65, BlockSize), Fill(66, BlockSize - 1))

(***************************************************************************)
(* C17                                                                     *)
(***************************************************************************)

\* what is left of the loop: the segments that can still be accepted, each
\* with the timeouts it can be preceded by, and the timeouts still tolerated
\* before the next one
LoopVariant ==
    (max_retries + 1) * (U16 - block_num) + (max_retries - retries)

\* C17: the receive loop terminates whatever the server does: at most 65535
\* segments are accepted (block_num - 1 of them have been, and block_num
\* never passes 65536), at most 3 timeouts are tolerated while the loop
\* runs, and every receive event after which the loop goes on brings a
\* natural-number measure strictly down.
C17_LoopTerminates ==
    /\ [](block_num - 1 <= U16 - 1)
    /\ [](pc = "loop" => retries <= max_retries)
    /\ [](pc = "loop" => LoopVariant >= 0)
    /\ [][pc' = "loop" => LoopVariant' < LoopVariant]_vars
    /\ [][pc = "done" => pc' = "done"]_vars

\* 65535 segments have been accepted and the next datagram, numbered 0 by a
\* server that goes on, has ended the loop
C17_EndedAfterAllBlocks ==
    /\ pc = "done"
    /\ outcome = "OutOfOrderBlock"
    /\ block_num = U16
    /\ ack_packet = PackHH(OpACK, U16 - 1)
    /\ BlockOf(LastEvent[2]) = 0

(***************************************************************************)
(* C18                                                                     *)
(***************************************************************************)

\* the three transitions a received datagram may cause
AcceptTransition ==
    /\ block_num' = block_num + 1
    /\ FileContent' = BCat(FileContent, BDrop(StepData, 4))
    /\ outcome' \in { "none", "Finished" }
UnexpectedOpcodeTransition ==
    pc' = "done" /\ outcome' = "UnexpectedOpcode" /\ block_num' = block_num
OutOfOrderBlockTransition ==
    pc' = "done" /\ outcome' = "OutOfOrderBlock" /\ block_num' = block_num

\* C18: every iteration of the loop that receives a datagram, whatever its
\* length and content, is an accept, a termination with UnexpectedOpcode or
\* a termination with OutOfOrderBlock; the loop is never left on an
\* exception.
C18_EveryDatagramHandled ==
    /\ [][RecvStep => \/ AcceptTransition
                      \/ UnexpectedOpcodeTransition
                      \/ OutOfOrderBlockTransition]_vars
    /\ [](outcome # "struct.error")

(***************************************************************************)
(* C20                                                                     *)
(***************************************************************************)

\* the segments file.write has been called for: the accepted ones and,
\* inside an accepting iteration, the one just written
WrittenSegments ==
    SubSeq(Received, 1, IF pc = "accepted" THEN block_num ELSE block_num - 1)

\* the payloads of the first b written segments, joined
PayloadsUpTo(b) ==
    BJoin([ i \in 1 .. b |-> BDrop(WrittenSegments[i][2], 4) ])

\* the output begins with the payloads of blocks 1 .. b
BlockWritten(b) ==
    /\ b \in 1 .. Len(WrittenSegments)
    /\ BlockOf(WrittenSegments[b][2]) = b
    /\ BTake(FileContent, BLen(PayloadsUpTo(b))) = PayloadsUpTo(b)

\* this step passes an acknowledgment to sendto, and the block it names
AckSentStep ==
    Len(sent') = Len(sent) + 1 /\ IsAckSent(sent'[Len(sent')])
StepAckBlock == BlockOf(sent'[Len(sent')][1])

\* C20: with the accepting iteration followed through its statements, the
\* payload of a segment is written to the output (file.write has taken
\* it: it is in the file or in the buffer of the file object) before its
\* acknowledgment is sent: between the two the block is in the output and
\* not acknowledged, and every step that sends an acknowledgment, first
\* send or resend, starts in a state where the block it names is in the
\* output.  So in every state every acknowledgment sent names a block that
\* is in the output, the highest block acknowledged never exceeds the
\* number of blocks written, the output holds exactly the blocks written,
\* in order, and what has been written is never taken back.
C20_AckedOnlyWritten ==
    /\ [](\A i \in 1 .. Len(AckBlocks) :
              /\ BlockWritten(AckBlocks[i])
              /\ AckBlocks[i] <= Len(WrittenSegments))
    /\ [](pc = "accepted" =>
              /\ BlockWritten(block_num)
              /\ \A i \in 1 .. Len(AckBlocks) : AckBlocks[i] < block_num)
    /\ [](opened => FileContent = PayloadsUpTo(Len(WrittenSegments)))
    /\ [][AckSentStep => BlockWritten(StepAckBlock)]_vars
    /\ [][opened => BTake(FileContent', BLen(FileContent)) = FileContent]_vars

\* block 1 acknowledged and acknowledged again on a timeout; block 2 has
\* been written and its acknowledgment has not been sent yet
C20_WrittenNotYetAcked ==
    /\ pc = "accepted"
    /\ block_num = 2
    /\ AckBlocks = << 1, 1 >>
    /\ cur[1] = DataPacket(2, Fill(66, BlockSize))
    /\ FileContent = BCat(Fill(65, BlockSize), Fill(66, BlockSize))

(***************************************************************************)
(* C19                                                                     *)
(***************************************************************************)

\* the sender of the datagram received in this step
StepSource == events'[Len(events')][3]

\* C19: a datagram that comes from a host other than the one the request
\* was addressed to is not written to the output, is not acknowledged, and
\* neither advances nor ends the transfer.
C19_OnlyServerAffectsTransfer ==
    [][ (RecvStep /\ StepSource[1] # server_address[1])
        => ( /\ FileContent' = FileContent
             /\ sent' = sent
             /\ block_num' = block_num
             /\ pc' = pc
             /\ outcome' = outcome )
      ]_vars

(***************************************************************************)
(* A transfer against a server, over a channel that loses one datagram     *)
(*                                                                         *)
(* The server answers from the address the request was sent to, sends one  *)
(* block at a time, and sends its unacknowledged block again on its own    *)
(* timer or on a repeated acknowledgment.  The channel keeps the order and *)
(* loses at most one datagram, a data segment or an acknowledgment.  The   *)
(* server's timer runs out only when no datagram is in flight; the         *)
(* client's recvfrom times out whenever it has waited long enough,         *)
(* whatever is in flight.  net.out is what the server has sent and the     *)
(* channel has not lost; the client has read the first Len(Received) of    *)
(* them.  The server has been handed the first net.cursor datagrams of     *)
(* sent.                                                                   *)
(***************************************************************************)

\* how many times the server sends a block again on its timer
SrvMaxRetries == 2

\* the files the server may hold: empty, one byte short of a block, one
\* block, two files of several blocks, and one a block longer than the
\* buffer of the client's file object
ServerFiles ==
    { << >>, Fill(65, BlockSize - 1), Fill(65, BlockSize),
      BCat(Fill(65, BlockSize), Fill(66, 3)),
      BCat(Fill(65, BlockSize), BCat(Fill(66, BlockSize), Fill(67, 1))),
      BCat(Fill(65, FileBufferSize), Fill(66, BlockSize + 1)) }

\* block k of the file, and whether it is the last one
SrvSegment(file, k) == BTake(BDrop(file, (k - 1) * BlockSize), BlockSize)
SrvIsLast(file, k) == BLen(SrvSegment(file, k)) < BlockSize
SrvData(k) == DataPacket(k, SrvSegment(net.file, k))

clientVars == << mode, fs, disk, buf, pc, outcome, request, sock_open, bound,
                 file_open, opened, block_num, retries, ack_packet, sent,
                 events, cur >>

InitLoss ==
    /\ mode = "rx"
    /\ fs = [kind |-> "file", readable |-> TRUE, writable |-> TRUE]
    /\ disk = OldContent
    /\ buf = << >>
    /\ pc = "main"
    /\ outcome = "none"
    /\ request = "none"
    /\ sock_open = TRUE
    /\ bound = FALSE
    /\ file_open = FALSE
    /\ opened = FALSE
    /\ block_num = 1
    /\ retries = 0
    /\ ack_packet = None
    /\ sent = << >>
    /\ events = << >>
    /\ cur = None
    /\ \E f \in ServerFiles : net = [ NoServer EXCEPT !.file = f ]

InFlightToClient == pc # "done" /\ Len(Received) < Len(net.out)
InFlightToServer == net.cursor < Len(sent)
Quiet == ~InFlightToClient /\ ~InFlightToServer

\* recvfrom returns the next datagram of the server
DeliverLoss ==
    /\ InFlightToClient
    /\ Recv(net.out[Len(Received) + 1], server_address)

\* the server is handed the next datagram of the client: the request makes
\* it send block 1, the acknowledgment of its block makes it send the next
\* one (or end, after the last), a repeated acknowledgment of the block
\* before makes it send its block again
ServerReceive ==
    /\ InFlightToServer
    /\ LET pkt == sent[net.cursor + 1][1]
           n == [ net EXCEPT !.cursor = @ + 1 ]
       IN net' =
            IF pkt = RrqPacket
            THEN IF net.srv = 0
                 THEN [ n EXCEPT !.srv = 1, !.out = Append(@, SrvData(1)) ]
                 ELSE n
            ELSE IF net.done \/ ~IsAckSent(<< pkt >>)
            THEN n
            ELSE IF BlockOf(pkt) = net.srv
            THEN IF SrvIsLast(net.file, net.srv)
                 THEN [ n EXCEPT !.done = TRUE ]
                 ELSE [ n EXCEPT !.srv = @ + 1, !.tries = 0,
                                 !.out = Append(@, SrvData(net.srv + 1)) ]
            ELSE IF BlockOf(pkt) = net.srv - 1
            THEN [ n EXCEPT !.out = Append(@, SrvData(net.srv)) ]
            ELSE n
    /\ UNCHANGED clientVars

\* the server's timer runs out: it sends its unacknowledged block again
ServerTimer ==
    /\ Quiet
    /\ net.srv >= 1
    /\ ~net.done
    /\ net.tries < SrvMaxRetries
    /\ net' = [ net EXCEPT !.tries = @ + 1,
                           !.out = Append(@, SrvData(net.srv)) ]
    /\ UNCHANGED clientVars

\* the channel loses the data segment in flight
LoseData ==
    /\ net.lost = "none"
    /\ InFlightToClient
    /\ net' = [ net EXCEPT !.lost = "data",
                           !.out = SubSeq(@, 1, Len(Received))
                                     \o SubSeq(@, Len(Received) + 2, Len(@)) ]
    /\ UNCHANGED clientVars

\* the channel loses the acknowledgment in flight
LoseAck ==
    /\ net.lost = "none"
    /\ InFlightToServer
    /\ IsAckSent(sent[net.cursor + 1])
    /\ net' = [ net EXCEPT !.lost = "ack", !.cursor = @ + 1 ]
    /\ UNCHANGED clientVars

NextLoss ==
    \/ SendRrq
    \/ OpenFile
    \/ DeliverLoss
    \/ Timeout
    \/ ServerReceive
    \/ ServerTimer
    \/ LoseData
    \/ LoseAck

SpecLoss == InitLoss /\ [][NextLoss]_vars

\* lemma: while the channel has lost nothing and recvfrom has not timed
\* out, a run that has ended has ended successfully with the server's file
\* in the local file
LosslessTransferCorrect ==
    (net.lost = "none" /\ TotalTimeouts = 0 /\ pc = "done")
        => (outcome = "Finished" /\ disk = net.file)

(***************************************************************************)
(* C12                                                                     *)
(***************************************************************************)

\* C12: against that server, over that channel, whichever timer runs out
\* first, the run does not end in failure on a datagram: when it has ended
\* otherwise than by the client's giving up after four silent waits, it
\* has ended successfully and the local file is the server's file.
C12_RecoversFromSingleLoss ==
    (pc = "done" /\ outcome # "MaxRetriesExceeded")
        => (outcome = "Finished" /\ disk = net.file)

============================================================================
